---- MODULE Spec2Model ----
(***************************************************************************)
(* kalker: the recursive-descent parser (src/src/parser.rs) and the        *)
(* rounding / estimation helpers (src/kalk/src/kalk_value/rounding.rs).    *)
(*                                                                         *)
(* The parser is modelled as a state machine over one ParserContext: a     *)
(* call of parse loads a token stream, the statement loop parses one       *)
(* statement per step, and the interpreter is called once the loop ends.   *)
(* The parse functions are operators that thread the context through, as   *)
(* the code threads `&mut ParserContext`; every function returns a record  *)
(* [r, v, c]: "ok" with a value, "err" with a message (Rust's Err/`?`), or *)
(* "panic" (a Vec index out of bounds), and the context it leaves behind.  *)
(***************************************************************************)
EXTENDS Integers, Sequences, FiniteSets, TLC

VARIABLES tokens, pos, symbol_table,   \* ParserContext
          pc, statements, outcome,     \* the running call of parse
          calls, start_pos, start_table, log, implicit_at,
          input, component, estimated, rounded, rpc   \* rounding.rs

vars == <<tokens, pos, symbol_table, pc, statements, outcome, calls,
          start_pos, start_table, log, implicit_at, input, component, estimated, rounded, rpc>>

parser_vars == <<tokens, pos, symbol_table, pc, statements, outcome, calls,
                 start_pos, start_table, log, implicit_at>>
rounding_vars == <<input, component, estimated, rounded, rpc>>

\* Bounds of the model.
MaxLen == 3
MaxCalls == 2
MaxDepth == 3
MaxInt == 3

(***************************************************************************)
(* Tokens                                                                  *)
(***************************************************************************)
Token(k, v) == [kind |-> k, value |-> v]

EOF == Token("EOF", "")

Lit(v) == Token("Literal", v)

Id(n) == Token("Identifier", n)

Plus == Token("Plus", "+")

Minus == Token("Minus", "-")

Star == Token("Star", "*")

Slash == Token("Slash", "/")

Power == Token("Power", "^")

OpenParenthesis == Token("OpenParenthesis", "(")

ClosedParenthesis == Token("ClosedParenthesis", ")")

Pipe == Token("Pipe", "|")

Comma == Token("Comma", ",")

Equals == Token("Equals", "=")

Deg == Token("Deg", "deg")

Rad == Token("Rad", "rad")

\* TokenKind::is_unit
is_unit(kind) == kind \in {"Deg", "Rad"}

\* TokenKind::compare: equality of the discriminants
compare(kind, second_token) == kind = second_token

(***************************************************************************)
(* Stmt and Expr                                                           *)
(***************************************************************************)
Binary(l, op, r) == [e |-> "Binary", left |-> l, op |-> op, right |-> r]

Unary(op, x) == [e |-> "Unary", op |-> op, expr |-> x]

Unit(x, k) == [e |-> "Unit", expr |-> x, kind |-> k]

Var(n) == [e |-> "Var", name |-> n]

Group(x) == [e |-> "Group", expr |-> x]

FnCall(n, args) == [e |-> "FnCall", name |-> n, args |-> args]

Literal(v) == [e |-> "Literal", value |-> v]

VarDecl(n, x) == [s |-> "VarDecl", name |-> n, expr |-> x]

FnDecl(n, ps, x) == [s |-> "FnDecl", name |-> n, params |-> ps, expr |-> x]

ExprStmt(x) == [s |-> "Expr", expr |-> x]

(***************************************************************************)
(* Results of the parse functions                                          *)
(***************************************************************************)
Ok(v, c) == [r |-> "ok", v |-> v, c |-> c]

Err(m, c) == [r |-> "err", v |-> m, c |-> c]

Panic(c) == [r |-> "panic", v |-> "index out of bounds", c |-> c]

(***************************************************************************)
(* Symbol table (symbol_table.rs is not part of the sources: a map from    *)
(* key to the most recent declaration, functions under "name()").          *)
(***************************************************************************)
EmptyTable == [k \in {} |-> FnDecl("", <<>>, Literal(""))]

insert(table, key, stmt) ==
    [k \in (DOMAIN table) \cup {key} |-> IF k = key THEN stmt ELSE table[k]]

contains_func(table, identifier) == (identifier \o "()") \in DOMAIN table

(***************************************************************************)
(* Token access.  A context c is [tokens, pos, symbol_table, log]; log     *)
(* records what the statement being parsed did: every value the cursor     *)
(* took (trace), every index read without a preceding is_at_end test       *)
(* (reads), the kinds of the tokens parse_primary's fallback consumed      *)
(* (operands), the cursors at which parse_factor multiplied implicitly     *)
(* (implicit), and what parse_identifier_stmt did.                         *)
(***************************************************************************)
NewLog(p) == [trace |-> <<p>>, reads |-> {}, operands |-> {}, implicit |-> {},
              rewinds |-> 0, began_at |-> -1, reinterpreted |-> FALSE,
              nonvar |-> 0, inserted |-> FALSE]

Context(t, p, st) == [tokens |-> t, pos |-> p, symbol_table |-> st, log |-> NewLog(p)]

\* the index is inside the token vector
InBounds(c, i) == i >= 0 /\ i < Len(c.tokens)

Read(c, i) == [c EXCEPT !.log.reads = @ \cup {i}]

\* peek: &context.tokens[context.pos]
peek(c) == IF InBounds(c, c.pos) THEN Ok(c.tokens[c.pos + 1], Read(c, c.pos))
           ELSE Panic(c)

\* peek_next: &context.tokens[context.pos + 1]
peek_next(c) == IF InBounds(c, c.pos + 1) THEN Ok(c.tokens[c.pos + 2], Read(c, c.pos + 1))
                ELSE Panic(c)

\* previous: &context.tokens[context.pos - 1]
previous(c) == IF InBounds(c, c.pos - 1) THEN Ok(c.tokens[c.pos], Read(c, c.pos - 1))
               ELSE Panic(c)

\* is_at_end: the length test guards the read
is_at_end(c) ==
    IF c.pos >= Len(c.tokens) THEN TRUE ELSE compare(c.tokens[c.pos + 1].kind, "EOF")

match_token(c, kind) ==
    IF is_at_end(c) THEN FALSE ELSE compare(c.tokens[c.pos + 1].kind, kind)

\* advance: context.pos += 1; previous(context)
advance(c) ==
    previous([c EXCEPT !.pos = @ + 1, !.log.trace = Append(@, c.pos + 1)])

\* consume without the test of the token kind
consume_unchecked(c, kind) == advance(c)

consume(c, kind) ==
    IF match_token(c, kind) THEN advance(c) ELSE Err("Unexpected token", c)

(***************************************************************************)
(* Expressions                                                             *)
(***************************************************************************)
\* the `?` operator: an Err (or a panic) ends the function with it, an Ok
\* value goes on to the rest of the function
and_then(res, rest(_)) == IF res.r # "ok" THEN res ELSE rest(res)

RECURSIVE parse_expr(_), parse_sum(_), sum_loop(_, _), parse_factor(_),
          factor_loop(_, _), parse_unary(_), parse_exponent(_),
          parse_primary(_), parse_group(_), parse_abs(_),
          parse_identifier(_), parameters_loop(_, _)

parse_expr(c) == parse_sum(c)

parse_sum(c) ==
    and_then(parse_factor(c), LAMBDA left : sum_loop(left.v, left.c))

\* the while loop of parse_sum
sum_loop(left, c) ==
    IF match_token(c, "Plus") \/ match_token(c, "Minus")
    THEN and_then(peek(c), LAMBDA op :
         and_then(advance(op.c), LAMBDA a :
         and_then(parse_factor(a.c), LAMBDA right :
         sum_loop(Binary(left, op.v.kind, right.v), right.c))))
    ELSE Ok(left, c)

parse_factor(c) ==
    and_then(parse_unary(c), LAMBDA left : factor_loop(left.v, left.c))

\* factor_operator with the identifier consumed as if it were the operator
factor_operator_consuming(op, c) ==
    and_then(advance(IF op.kind = "Identifier"
                     THEN [c EXCEPT !.log.implicit = @ \cup {c.pos}] ELSE c),
             LAMBDA a : Ok(IF op.kind = "Identifier" THEN "Star" ELSE op.kind, a.c))

\* the step of parse_factor's loop between reading the operator and
\* parsing the right operand: an identifier stands for a multiplication and
\* stays where it is, an operator is consumed
factor_operator(op, c) ==
    IF op.kind = "Identifier"
    THEN Ok("Star", [c EXCEPT !.log.implicit = @ \cup {c.pos}])
    ELSE and_then(advance(c), LAMBDA a : Ok(op.kind, a.c))

\* the while loop of parse_factor
factor_loop(left, c) ==
    IF \/ match_token(c, "Star")
       \/ match_token(c, "Slash")
       \/ match_token(c, "Identifier")
    THEN and_then(peek(c), LAMBDA t :
         and_then(factor_operator(t.v, t.c), LAMBDA op :
         and_then(parse_unary(op.c), LAMBDA right :
         factor_loop(Binary(left, op.v, right.v), right.c))))
    ELSE Ok(left, c)

parse_unary(c) ==
    IF match_token(c, "Minus")
    THEN and_then(advance(c), LAMBDA op :
         and_then(parse_unary(op.c), LAMBDA expr :
         Ok(Unary(op.v.kind, expr.v), expr.c)))
    ELSE parse_exponent(c)

parse_exponent(c) ==
    and_then(parse_primary(c), LAMBDA left :
    IF match_token(left.c, "Power")
    THEN and_then(advance(left.c), LAMBDA op :
         and_then(parse_exponent(op.c), LAMBDA right :
         Ok(Binary(left.v, op.v.kind, right.v), right.c)))
    ELSE left)

\* primary_fallback reading the token with peek, the cursor left in place
primary_fallback_peek(c) ==
    and_then(peek(c), LAMBDA t :
    Ok(Literal(t.v.value), [t.c EXCEPT !.log.operands = @ \cup {t.v.kind}]))

\* the `_` arm of parse_primary's match: whatever token is there becomes the
\* operand
primary_fallback(c) ==
    and_then(advance(c), LAMBDA a :
    Ok(Literal(a.v.value), [a.c EXCEPT !.log.operands = @ \cup {a.v.kind}]))

\* the unit suffix test of parse_primary
unit_follows(c) == ~is_at_end(c) /\ is_unit(c.tokens[c.pos + 1].kind)

parse_primary(c) ==
    and_then(peek(c), LAMBDA t :
    and_then(CASE t.v.kind = "OpenParenthesis" -> parse_group(t.c)
               [] t.v.kind = "Pipe" -> parse_abs(t.c)
               [] t.v.kind = "Identifier" -> parse_identifier(t.c)
               [] OTHER -> primary_fallback(t.c),
             LAMBDA expr :
    IF unit_follows(expr.c)
    THEN and_then(advance(expr.c), LAMBDA u : Ok(Unit(expr.v, u.v.kind), u.c))
    ELSE expr))

parse_group(c) ==
    and_then(advance(c), LAMBDA a :
    and_then(parse_expr(a.c), LAMBDA inner :
    and_then(consume(inner.c, "ClosedParenthesis"), LAMBDA closed :
    Ok(Group(inner.v), closed.c))))

parse_abs(c) ==
    and_then(advance(c), LAMBDA a :
    and_then(parse_expr(a.c), LAMBDA inner :
    and_then(consume(inner.c, "Pipe"), LAMBDA closed :
    Ok(FnCall("abs", <<Group(inner.v)>>), closed.c))))

\* the while loop over ", expr" of parse_identifier
parameters_loop(parameters, c) ==
    IF match_token(c, "Comma")
    THEN and_then(advance(c), LAMBDA a :
         and_then(parse_expr(a.c), LAMBDA p :
         parameters_loop(Append(parameters, p.v), p.c)))
    ELSE Ok(parameters, c)

parse_identifier(c) ==
    and_then(advance(c), LAMBDA identifier :
    IF /\ match_token(identifier.c, "Literal")
       /\ contains_func(identifier.c.symbol_table, identifier.v.value)
    THEN \* Eg. sqrt64
         and_then(advance(identifier.c), LAMBDA a :
         Ok(FnCall(identifier.v.value, <<Literal(a.v.value)>>),
            [a.c EXCEPT !.log.operands = @ \cup {a.v.kind}]))
    ELSE IF match_token(identifier.c, "OpenParenthesis")
    THEN \* Eg. sqrt(64)
         and_then(advance(identifier.c), LAMBDA a :
         and_then(parse_expr(a.c), LAMBDA first :
         and_then(parameters_loop(<<first.v>>, first.c), LAMBDA parameters :
         and_then(consume(parameters.c, "ClosedParenthesis"), LAMBDA closed :
         Ok(FnCall(identifier.v.value, parameters.v), closed.c)))))
    ELSE \* Eg. x
         Ok(Var(identifier.v.value), identifier.c))

(***************************************************************************)
(* Statements                                                              *)
(***************************************************************************)
\* Ok(Stmt::Expr(Box::new(parse_expr(context)?)))
parse_expr_stmt(c) ==
    and_then(parse_expr(c), LAMBDA expr : Ok(ExprStmt(expr.v), expr.c))

parse_var_decl_stmt(c) ==
    and_then(advance(c), LAMBDA identifier :
    and_then(advance(identifier.c), LAMBDA eq :   \* Equal sign
    and_then(parse_expr(eq.c), LAMBDA expr :
    Ok(VarDecl(identifier.v.value, expr.v), expr.c))))

IsVar(parameter) == parameter.e = "Var"

\* the for loop of parse_identifier_stmt: the arguments that are variables,
\* in order; any other argument is passed over
parameter_identifiers(parameters) ==
    LET variables == SelectSeq(parameters, IsVar)
    IN  [i \in 1..Len(variables) |-> variables[i].name]

\* the `if let Equals` branch of parse_identifier_stmt, after the advance
function_declaration(primary, c) ==
    and_then(parse_expr(c), LAMBDA expr :
    IF primary.e = "FnCall"
    THEN LET fn_decl == FnDecl(primary.name,
                               parameter_identifiers(primary.args), expr.v)
         IN  Ok(fn_decl,
                [expr.c EXCEPT
                   !.symbol_table = insert(@, primary.name \o "()", fn_decl),
                   !.log.inserted = TRUE,
                   !.log.nonvar = Len(primary.args)
                                  - Len(parameter_identifiers(primary.args))])
    ELSE Err("Parsing error.", expr.c))

\* rewind to the token after began_at
rewind_off_by_one(c, began_at) ==
    [c EXCEPT !.pos = began_at + 1,
              !.log.trace = Append(@, began_at + 1),
              !.log.rewinds = @ + 1]

\* the else branch of parse_identifier_stmt: context.pos = began_at
rewind(c, began_at) ==
    [c EXCEPT !.pos = began_at,
              !.log.trace = Append(@, began_at),
              !.log.rewinds = @ + 1]

parse_identifier_stmt(c) ==
    and_then(parse_primary([c EXCEPT !.log.began_at = c.pos]), LAMBDA primary :
    and_then(peek(primary.c), LAMBDA t :
    IF t.v.kind = "Equals"
    THEN and_then(advance([t.c EXCEPT !.log.reinterpreted = TRUE]), LAMBDA a :
         function_declaration(primary.v, a.c))
    ELSE parse_expr_stmt(rewind(t.c, c.pos))))

parse_stmt(c) ==
    IF match_token(c, "Identifier")
    THEN and_then(peek_next(c), LAMBDA next :
         CASE next.v.kind = "Equals" -> parse_var_decl_stmt(next.c)
           [] next.v.kind = "OpenParenthesis" -> parse_identifier_stmt(next.c)
           [] OTHER -> parse_expr_stmt(next.c))
    ELSE parse_expr_stmt(c)

\* statements.push(parse_stmt(context)?) followed by the rest of the loop
RECURSIVE parse_run(_, _)
push_and_run(res, stmts) ==
    IF res.r # "ok" THEN [r |-> res.r, v |-> stmts, c |-> res.c]
    ELSE parse_run(res.c, Append(stmts, res.v))

\* the statement loop of parse as a whole: the statements parsed from c on,
\* and how the loop ended
parse_run(c, stmts) ==
    IF is_at_end(c) THEN Ok(stmts, c)
    ELSE push_and_run(parse_stmt([c EXCEPT !.log = NewLog(c.pos)]), stmts)

(***************************************************************************)
(* Interpreter (interpreter.rs is not part of the sources).  Modelled from *)
(* its contract: interpret(statements) gives the value of the last         *)
(* statement or a failure.  Values are integers; a result that is not an   *)
(* integer is carried as "a number" without its value (exact = FALSE).     *)
(***************************************************************************)
Value(n) == [ok |-> TRUE, exact |-> TRUE, val |-> n]

Inexact == [ok |-> TRUE, exact |-> FALSE, val |-> 0]

Failure == [ok |-> FALSE, exact |-> FALSE, val |-> 0]

LiteralValues == ("1" :> 1) @@ ("2" :> 2) @@ ("4" :> 4)

RECURSIVE pow(_, _)
pow(b, n) == IF n = 0 THEN 1 ELSE b * pow(b, n - 1)

abs_int(n) == IF n < 0 THEN -n ELSE n

binary_value(l, op, r) ==
    IF ~l.ok \/ ~r.ok THEN Failure
    ELSE IF ~l.exact \/ ~r.exact THEN Inexact
    ELSE CASE op = "Plus" -> Value(l.val + r.val)
           [] op = "Minus" -> Value(l.val - r.val)
           [] op = "Star" -> Value(l.val * r.val)
           [] op = "Slash" -> IF r.val # 0 /\ l.val % abs_int(r.val) = 0
                              THEN Value((l.val \div abs_int(r.val))
                                         * (IF r.val < 0 THEN -1 ELSE 1))
                              ELSE Inexact
           [] op = "Power" -> IF r.val >= 0 /\ r.val <= 4 /\ abs_int(l.val) <= 16
                              THEN Value(pow(l.val, r.val))
                              ELSE Inexact
           [] OTHER -> Failure

RECURSIVE eval_expr(_, _, _, _), eval_args(_, _, _, _)

\* the values of the arguments, or <<Failure>> if one fails
eval_args(args, env, table, depth) ==
    IF args = <<>> THEN <<>>
    ELSE LET v == eval_expr(Head(args), env, table, depth)
             rest == eval_args(Tail(args), env, table, depth)
         IN  IF ~v.ok \/ rest = <<Failure>> THEN <<Failure>> ELSE <<v>> \o rest

eval_expr(expr, env, table, depth) ==
    CASE expr.e = "Literal" ->
           IF expr.value \in DOMAIN LiteralValues
           THEN Value(LiteralValues[expr.value]) ELSE Failure
      [] expr.e = "Var" ->
           IF expr.name \in DOMAIN env THEN env[expr.name] ELSE Failure
      [] expr.e = "Group" -> eval_expr(expr.expr, env, table, depth)
      [] expr.e = "Unit" ->
           IF eval_expr(expr.expr, env, table, depth).ok THEN Inexact ELSE Failure
      [] expr.e = "Unary" ->
           binary_value(Value(0), "Minus", eval_expr(expr.expr, env, table, depth))
      [] expr.e = "Binary" ->
           binary_value(eval_expr(expr.left, env, table, depth), expr.op,
                        eval_expr(expr.right, env, table, depth))
      [] expr.e = "FnCall" ->
           LET args == eval_args(expr.args, env, table, depth)
               key == expr.name \o "()"
           IN  IF args = <<Failure>> THEN Failure
               ELSE IF expr.name = "abs" /\ Len(args) = 1
               THEN IF args[1].exact THEN Value(abs_int(args[1].val)) ELSE Inexact
               ELSE IF key \notin DOMAIN table \/ depth = 0 THEN Failure
               ELSE LET decl == table[key]
                    IN  IF Len(decl.params) # Len(args) THEN Failure
                        ELSE eval_expr(decl.expr,
                                       [n \in {decl.params[i] : i \in 1..Len(args)} |->
                                          args[CHOOSE i \in 1..Len(args) : decl.params[i] = n]],
                                       table, depth - 1)

eval_stmt(stmt, table) ==
    IF stmt.s = "FnDecl" THEN Value(0)
    ELSE eval_expr(stmt.expr, [n \in {} |-> Failure], table, MaxDepth)

\* the value of the last statement, a failure if any statement fails or
\* there is none
interpret(stmts, table) ==
    IF stmts = <<>> \/ \E i \in 1..Len(stmts) : ~eval_stmt(stmts[i], table).ok
    THEN Failure
    ELSE eval_stmt(stmts[Len(stmts)], table)

(***************************************************************************)
(* parse                                                                   *)
(***************************************************************************)
\* Lexer::lex (lexer.rs is not part of the sources): the tokens of the input
\* followed by the end-of-input token
lex(text) == Append(text, EOF)

\* What a call of parse came to: Ok(value), Err(message) or a panic; `by`
\* names the step that decided it.
NoOutcome == [kind |-> "None", value |-> Failure, msg |-> "", by |-> "none"]

Returned(v) == [kind |-> "Ok", value |-> v, msg |-> "", by |-> "interpreter"]

ParseError(m) == [kind |-> "Err", value |-> Failure, msg |-> m, by |-> "parse_stmt"]

Aborted(m, who) == [kind |-> "Panic", value |-> Failure, msg |-> m, by |-> who]

\* Ok(interpreter.interpret(statements).unwrap())
unwrap(result) ==
    IF result.ok THEN Returned(result)
    ELSE Aborted("called unwrap() on a failure", "interpreter")

\* ParserContext::new()
InitParser ==
    /\ tokens = <<>>
    /\ pos = 0
    /\ symbol_table = EmptyTable
    /\ pc = "idle"
    /\ statements = <<>>
    /\ outcome = NoOutcome
    /\ calls = 0
    /\ start_pos = 0
    /\ start_table = EmptyTable
    /\ log = NewLog(0)
    /\ implicit_at = {}

\* parse, up to the loop: context.tokens = Lexer::lex(input)
ParseCall(text) ==
    /\ pc = "idle"
    /\ calls < MaxCalls
    /\ tokens' = lex(text)
    /\ statements' = <<>>
    /\ outcome' = NoOutcome
    /\ calls' = calls + 1
    /\ start_pos' = pos
    /\ start_table' = symbol_table
    /\ log' = NewLog(pos)
    /\ implicit_at' = {}
    /\ pc' = "loop"
    /\ UNCHANGED <<pos, symbol_table>>

\* statements.push(parse_stmt(context)?): what the result res of parse_stmt
\* does to the parser
Push(res) ==
    /\ pos' = res.c.pos
    /\ symbol_table' = res.c.symbol_table
    /\ log' = res.c.log
    /\ implicit_at' = implicit_at \cup res.c.log.implicit
    /\ statements' = IF res.r = "ok" THEN Append(statements, res.v) ELSE statements
    /\ outcome' = CASE res.r = "ok" -> outcome
                    [] res.r = "err" -> ParseError(res.v)
                    [] OTHER -> Aborted(res.v, "parse_stmt")
    /\ pc' = CASE res.r = "ok" -> "loop"
               [] res.r = "err" -> "idle"
               [] OTHER -> "aborted"

\* one iteration of `while !is_at_end(context)`
ParseStmt ==
    /\ pc = "loop"
    /\ ~is_at_end(Context(tokens, pos, symbol_table))
    /\ Push(parse_stmt(Context(tokens, pos, symbol_table)))
    /\ UNCHANGED <<tokens, calls, start_pos, start_table>>

\* after the loop: the interpreter runs on the statements
Interpret ==
    /\ pc = "loop"
    /\ is_at_end(Context(tokens, pos, symbol_table))
    /\ outcome' = unwrap(interpret(statements, symbol_table))
    /\ pc' = IF outcome'.kind = "Ok" THEN "idle" ELSE "aborted"
    /\ UNCHANGED <<tokens, pos, symbol_table, statements, calls, start_pos,
                   start_table, log, implicit_at>>

(***************************************************************************)
(* Magnitudes (rounding.rs, built without the "rug" feature: f64).  An f64 *)
(* is a binary fraction, so it has a finite decimal expansion; a magnitude *)
(* is that expansion, exactly: a sign, the integer part and the digits of  *)
(* the fraction without trailing zeroes, [neg, int, frac].  The operations *)
(* whose result need not be an f64 (a literal read, 1 - x, x * x) round    *)
(* the exact decimal result to the nearest f64, ties to even.  The model   *)
(* covers magnitudes from 2^-(MaxPower - 54) up to the integers TLC can    *)
(* hold.  A string is a sequence of one-character strings.                 *)
(***************************************************************************)
\* the bits of an f64's significand
MantissaBits == 53

MaxPower == 128

Zeros(n) == [i \in 1..n |-> 0]

Mag(neg, int, frac) == [neg |-> neg, int |-> int, frac |-> frac]

DigitChar(d) == <<"0", "1", "2", "3", "4", "5", "6", "7", "8", "9">>[d + 1]

RECURSIVE NatDigits(_)
NatDigits(n) == IF n < 10 THEN <<n>> ELSE Append(NatDigits(n \div 10), n % 10)

DigitChars(ds) == [i \in 1..Len(ds) |-> DigitChar(ds[i])]

IsZeros(ds) == \A i \in 1..Len(ds) : ds[i] = 0

\* the digits without the zeroes at the end
TrimZeroDigits(ds) ==
    IF IsZeros(ds) THEN <<>>
    ELSE SubSeq(ds, 1, CHOOSE i \in 1..Len(ds) :
                         ds[i] # 0 /\ IsZeros(SubSeq(ds, i + 1, Len(ds))))

\* the digits without the zeroes in front, one digit at least
StripZeroDigits(ds) ==
    IF IsZeros(ds) THEN <<0>>
    ELSE SubSeq(ds, CHOOSE i \in 1..Len(ds) :
                      ds[i] # 0 /\ IsZeros(SubSeq(ds, 1, i - 1)), Len(ds))

\* the natural the digits stand for
RECURSIVE DigitsValue(_)
DigitsValue(ds) ==
    IF ds = <<>> THEN 0 ELSE 10 * DigitsValue(SubSeq(ds, 1, Len(ds) - 1)) + ds[Len(ds)]

IsNines(ds) == \A i \in 1..Len(ds) : ds[i] = 9

\* the digits ds plus one in the last place, a carry out of the first digit
\* being lost
Increment(ds) ==
    IF IsNines(ds) THEN Zeros(Len(ds))
    ELSE LET last == CHOOSE i \in 1..Len(ds) :
                       ds[i] # 9 /\ IsNines(SubSeq(ds, i + 1, Len(ds)))
         IN  [i \in 1..Len(ds) |-> IF i < last THEN ds[i]
                                    ELSE IF i = last THEN ds[i] + 1 ELSE 0]

\* a[i] * b[k - i] summed over i from first to last
RECURSIVE ColumnSum(_, _, _, _, _)
ColumnSum(a, b, k, first, last) ==
    IF first > last THEN 0
    ELSE IF first = last THEN a[first] * b[k - first]
    ELSE ColumnSum(a, b, k, first, (first + last) \div 2)
         + ColumnSum(a, b, k, (first + last) \div 2 + 1, last)

\* column k (1 = most significant) of the product of the digit rows a and b,
\* before the carries
Column(a, b, k) ==
    ColumnSum(a, b, k, IF k - Len(b) > 1 THEN k - Len(b) ELSE 1,
              IF k - 1 < Len(a) THEN k - 1 ELSE Len(a))

\* the digits of the columns first..last with the carry coming in from the
\* right, and the carry going out to the left: the right half first, then
\* the left half with the carry out of the right
RECURSIVE Carry(_, _, _, _)
Carry(cols, first, last, carry) ==
    IF first = last
    THEN [ds |-> <<(cols[first] + carry) % 10>>, carry |-> (cols[first] + carry) \div 10]
    ELSE LET right == Carry(cols, (first + last) \div 2 + 1, last, carry)
             halves == <<right, Carry(cols, first, (first + last) \div 2, right.carry)>>
         IN  [ds |-> halves[2].ds \o halves[1].ds, carry |-> halves[2].carry]

\* the product of two naturals given by their digits, Len(a) + Len(b) digits
Times(a, b) ==
    Carry([k \in 1..(Len(a) + Len(b)) |-> Column(a, b, k)], 1, Len(a) + Len(b), 0).ds

\* b^n by its digits
RECURSIVE PowerDigits(_, _)
PowerDigits(b, n) ==
    IF n = 0 THEN <<1>>
    ELSE LET half == PowerDigits(b, n \div 2)
         IN  StripZeroDigits(IF n % 2 = 1 THEN Times(<<b>>, Times(half, half))
                             ELSE Times(half, half))

PowersOfTwo == [n \in 0..MaxPower |-> PowerDigits(2, n)]

PowersOfFive == [n \in 0..MaxPower |-> PowerDigits(5, n)]

Pow2(k) == PowersOfTwo[k]

Pow5(k) == PowersOfFive[k]

\* the decimal ds * 10^-s, not negative
Dec(ds, s) == [ds |-> ds, s |-> s]

\* the digits of x at scale s in w places
Aligned(x, s, w) == Zeros(w - Len(x.ds) - (s - x.s)) \o x.ds \o Zeros(s - x.s)

\* -1, 0 or 1 as a is below, equal to or above b, both of one length: the
\* first digit in which they differ decides
CompareDigits(a, b) ==
    IF a = b THEN 0
    ELSE LET i == CHOOSE i \in 1..Len(a) :
                    a[i] # b[i] /\ SubSeq(a, 1, i - 1) = SubSeq(b, 1, i - 1)
         IN  IF a[i] < b[i] THEN -1 ELSE 1

\* the places x takes at scale s
Places(x, s) == Len(x.ds) + s - x.s

Larger(a, b) == IF a > b THEN a ELSE b

CompareAt(x, y, s) ==
    CompareDigits(Aligned(x, s, Larger(Places(x, s), Places(y, s))),
                  Aligned(y, s, Larger(Places(x, s), Places(y, s))))

Compare(x, y) == CompareAt(x, y, Larger(x.s, y.s))

\* 2^e exactly: 2^-n = 5^n / 10^n
PowerOfTwo(e) == IF e >= 0 THEN Dec(Pow2(e), 0) ELSE Dec(Pow5(-e), -e)

RECURSIVE ExponentFrom(_, _)
ExponentFrom(x, e) ==
    IF Compare(x, PowerOfTwo(e + 1)) < 0 THEN e ELSE ExponentFrom(x, e + 1)

\* the binary exponent of x > 0: 2^e <= x < 2^(e+1).  The search starts
\* below log2 of the power of ten under x.
Exponent(x) ==
    LET p == Len(StripZeroDigits(x.ds)) - 1 - x.s
    IN  ExponentFrom(x, ((p * 3321928) \div 1000000) - 1)

\* the f64 nearest to the decimal x, ties to the even significand
nearest_f64(x) ==
    IF IsZeros(x.ds) THEN Dec(<<0>>, 0)
    ELSE LET k == MantissaBits - 1 - Exponent(x)
             scaled == Times(x.ds, Pow2(k))
             n == Len(scaled) - x.s
             significand == SubSeq(scaled, 1, n)
             rest == SubSeq(scaled, n + 1, Len(scaled))
         IN  IF IsZeros(rest) THEN x
             ELSE IF \/ rest[1] > 5
                     \/ /\ rest[1] = 5
                        /\ (~IsZeros(Tail(rest)) \/ significand[n] % 2 = 1)
             THEN Dec(Times(Increment(significand), Pow5(k)), k)
             ELSE Dec(Times(significand, Pow5(k)), k)

ToDec(m) == Dec(NatDigits(m.int) \o m.frac, Len(m.frac))

FromDec(neg, x) ==
    LET ds == IF Len(x.ds) <= x.s THEN Zeros(x.s + 1 - Len(x.ds)) \o x.ds ELSE x.ds
        n == Len(ds) - x.s
    IN  Mag(neg, DigitsValue(SubSeq(ds, 1, n)),
            TrimZeroDigits(SubSeq(ds, n + 1, Len(ds))))

\* the f64 a decimal literal denotes: -int.ds, int.ds
f64(neg, int, ds) == FromDec(neg, nearest_f64(Dec(NatDigits(int) \o ds, Len(ds))))

\* value == 0f64
is_zero(m) == m.int = 0 /\ m.frac = <<>>

\* value < 0f64 (false of -0.0)
is_negative(m) == m.neg /\ ~is_zero(m)

abs(m) == [m EXCEPT !.neg = FALSE]

\* value - value.trunc(): exact in f64, and 0.0 of an integer whatever its
\* sign
fract(m) == Mag(m.neg /\ m.frac # <<>>, 0, m.frac)

trunc(m) == [m EXCEPT !.frac = <<>>]

\* ceil of a magnitude that is not negative
ceil(m) == IF m.frac = <<>> THEN m ELSE Mag(m.neg, m.int + 1, <<>>)

\* m * sign, sign being 1f64 or -1f64
times_sign(m, sign) == IF sign = -1 THEN [m EXCEPT !.neg = ~m.neg] ELSE m

\* the least decimals whose f64 logarithm is not below -4, -5, -6 and -8:
\* log10, which the C library computes to within an ulp, gives the limit
\* itself for the few f64 just under 10^limit
Log10Bound ==
    [limit \in {-4, -5, -6, -8} |->
       CASE limit = -4 -> Dec(<<9, 9, 9, 9, 9, 9, 9, 9, 9, 9, 9, 9, 9, 9, 8, 9>>, 20)
         [] limit = -5 -> Dec(<<9, 9, 9, 9, 9, 9, 9, 9, 9, 9, 9, 9, 9, 9, 9>>, 20)
         [] limit = -6 -> Dec(<<9, 9, 9, 9, 9, 9, 9, 9, 9, 9, 9, 9, 9, 9, 8, 7>>, 22)
         [] limit = -8 -> Dec(<<9, 9, 9, 9, 9, 9, 9, 9, 9, 9, 9, 9, 9, 9, 8>>, 23)]

\* m.log10() < limit for m >= 0 and a limit below zero; the logarithm of
\* zero is -inf
log10_less(m, limit) ==
    m.int = 0 /\ (m.frac = <<>> \/ Compare(ToDec(m), Log10Bound[limit]) < 0)

\* 1f64 - fract for 0 <= fract < 1
one_minus(m) ==
    IF m.frac = <<>> THEN Mag(FALSE, 1, <<>>)
    ELSE FromDec(FALSE, nearest_f64(
             Dec(Increment([i \in 1..Len(m.frac) |-> 9 - m.frac[i]]), Len(m.frac))))

\* value * value
square(m) ==
    FromDec(FALSE, nearest_f64(Dec(Times(ToDec(m).ds, ToDec(m).ds), 2 * Len(m.frac))))

RECURSIVE IsSquare(_, _)
IsSquare(n, k) == IF k * k > n THEN FALSE ELSE IF k * k = n THEN TRUE ELSE IsSquare(n, k + 1)

\* the distance gap is inside the bound of the rounding interval
Within(gap, bound, inclusive) ==
    IF inclusive THEN Compare(gap, bound) <= 0 ELSE Compare(gap, bound) < 0

\* what is cut off when frac is cut after j digits
cut_off(frac, j) == Dec(SubSeq(frac, j + 1, Len(frac)), Len(frac))

\* what is missing to the next decimal of j digits
short_of(frac, j) ==
    IF IsZeros(SubSeq(frac, j + 1, Len(frac))) THEN Dec(<<1>>, j)
    ELSE Dec(Increment([i \in 1..(Len(frac) - j) |-> 9 - frac[j + i]]), Len(frac))

\* the least number of fraction digits with which a decimal next to the
\* value lies inside its rounding interval
RECURSIVE digits_needed(_, _, _, _, _)
digits_needed(frac, j, below, above, inclusive) ==
    IF \/ j = Len(frac)
       \/ Within(cut_off(frac, j), below, inclusive)
       \/ Within(short_of(frac, j), above, inclusive)
    THEN j
    ELSE digits_needed(frac, j + 1, below, above, inclusive)

\* the shortest decimal that reads back as the f64 m, the nearest to m of
\* that length.  The interval reaches half way to the neighbours of m (the
\* lower neighbour of a power of two is half as far) and includes its ends
\* if the significand of m is even.
shortest(m) ==
    IF m.frac = <<>> THEN m
    ELSE LET e == Exponent(ToDec(m))
             k == MantissaBits - 1 - e
             above == Dec(Pow5(k + 1), k + 1)
             below == IF Compare(ToDec(m), PowerOfTwo(e)) = 0
                      THEN Dec(Pow5(k + 2), k + 2) ELSE above
             inclusive == Len(m.frac) < k
             j == digits_needed(m.frac, 0, below, above, inclusive)
         IN  IF \/ j = Len(m.frac)
                \/ /\ Within(cut_off(m.frac, j), below, inclusive)
                   /\ \/ m.frac[j + 1] < 5
                      \/ ~Within(short_of(m.frac, j), above, inclusive)
             THEN Mag(m.neg, m.int, TrimZeroDigits(SubSeq(m.frac, 1, j)))
             ELSE FromDec(m.neg,
                          Dec(Increment(<<0>> \o NatDigits(m.int) \o SubSeq(m.frac, 1, j)), j))

\* the digits without an exponent, no ".0" on an integer
display(m) ==
    (IF m.neg THEN <<"-">> ELSE <<>>)
    \o DigitChars(NatDigits(m.int))
    \o (IF m.frac = <<>> THEN <<>> ELSE <<".">> \o DigitChars(m.frac))

\* f64's Display
to_string(m) == display(shortest(m))

(***************************************************************************)
(* KalkValue, round and estimate                                           *)
(***************************************************************************)
Number(real, imaginary, unit) ==
    [kind |-> "Number", real |-> real, imaginary |-> imaginary, unit |-> unit]

\* any other variant of KalkValue
Boolean == [kind |-> "Boolean", real |-> Mag(FALSE, 0, <<>>),
            imaginary |-> Mag(FALSE, 0, <<>>), unit |-> ""]

None == <<>>

Some(x) == <<x>>

\* the component complex_number_type selects
component_of(value, complex_number_type) ==
    IF complex_number_type = "Real" THEN value.real ELSE value.imaginary

\* KalkValue::Number with the selected component replaced, the other
\* component and the unit taken from the input
with_component(value, complex_number_type, new_value) ==
    IF complex_number_type = "Real"
    THEN Number(new_value, value.imaginary, value.unit)
    ELSE Number(value.real, new_value, value.unit)

\* value.ceil() * sign, the ceiling taken of the signed value: towards zero
\* for a negative one
ceil_signed(value, sign) ==
    times_sign(IF is_negative(value) THEN trunc(value) ELSE ceil(value), sign)

\* value.clone().abs().ceil() * sign
ceil_resigned(value, sign) == times_sign(ceil(abs(value)), sign)

round(value, complex_number_type) ==
    IF value.kind # "Number" THEN None
    ELSE LET v == component_of(value, complex_number_type)
             sign == IF is_negative(v) THEN -1 ELSE 1
             fraction == fract(abs(v))
             integer == trunc(abs(v))
             limit_floor == IF is_zero(integer) THEN -8 ELSE -4
             limit_ceil == IF is_zero(integer) THEN -5 ELSE -6
         IN  IF log10_less(fraction, limit_floor)
             THEN \* If eg. 0.00xxx
                  Some(with_component(value, complex_number_type,
                                      times_sign(integer, sign)))
             ELSE IF log10_less(one_minus(fraction), limit_ceil)
             THEN \* If eg. 0.999
                  Some(with_component(value, complex_number_type,
                                      ceil_resigned(v, sign)))
             ELSE None

\* trim_zeroes: with a decimal point, the trailing zeroes go and then a
\* trailing point
RECURSIVE trim_end(_, _)
trim_end(str, ch) ==
    IF str # <<>> /\ str[Len(str)] = ch THEN trim_end(SubSeq(str, 1, Len(str) - 1), ch)
    ELSE str

trim_zeroes(str) ==
    IF \E i \in 1..Len(str) : str[i] = "."
    THEN trim_end(trim_end(str, "0"), ".")
    ELSE str

RECURSIVE trim_start(_, _)
trim_start(str, ch) ==
    IF str # <<>> /\ str[1] = ch THEN trim_start(Tail(str), ch) ELSE str

starts_with(str, prefix) ==
    Len(str) >= Len(prefix) /\ SubSeq(str, 1, Len(prefix)) = prefix

\* &str[from..to], the indexes counted from zero
slice(str, from, to) == SubSeq(str, from + 1, to)

\* to_string_real(10) and to_string_imaginary(10, true) (kalk_value/mod.rs is
\* not part of the sources): the decimal rendering of the component
to_string_real(value) == to_string(value.real)

to_string_imaginary(value) == to_string(value.imaginary)

\* the table of named constants, keyed by the first eight characters
\* (kalk_value/mod.rs is not part of the sources)
KnownConstants ==
    (<<"3", ".", "1", "4", "1", "5", "9", "2">> :> <<"pi">>)
    @@ (<<"1", ".", "4", "1", "4", "2", "1", "3">> :> <<"sqrt", "2">>)

\* the value with each component replaced where round gave one
or_rounded(value, re, im) ==
    Number(IF re = None THEN value.real ELSE re[1].real,
           IF im = None THEN value.imaginary ELSE im[1].imaginary,
           value.unit)

\* round_if_needed (kalk_value/mod.rs is not part of the sources): each
\* component rounded where round gives a value
round_if_needed(value) ==
    or_rounded(value, round(value, "Real"), round(value, "Imaginary"))

\* the fraction alone whatever the integer part
repeating_third_alone(sign, integer, fraction) == sign \o fraction

\* the result of the repeating-third branch
repeating_third(sign, integer, fraction) ==
    IF is_zero(integer) THEN sign \o fraction
    ELSE LET explicit_sign == IF sign = <<>> THEN <<"+">> ELSE <<"-">>
         IN  trim_zeroes(to_string(integer)) \o <<" ">> \o explicit_sign
             \o <<" ">> \o fraction

\* the end of estimate: "-0" is written "0" and the zeroes are trimmed
rounded_text(rounded_str) ==
    Some(trim_zeroes(IF rounded_str = <<"-", "0">> THEN <<"0">> ELSE rounded_str))

\* the last two steps of estimate, squared being the square of the value
\* after round_if_needed and rounded_value what round gives for the input
root_or_rounded(squared, rounded_value, complex_number_type) ==
    \* x^2 is an integer and x is not
    IF squared.frac = <<>> /\ ~IsSquare(squared.int, 0)
    THEN Some(<<"sqrt">> \o to_string(squared))
    \* simply round it off a bit, eg. from 0.99999 to 1
    ELSE IF rounded_value = None THEN None
    ELSE rounded_text(to_string(component_of(rounded_value[1], complex_number_type)))

\* estimate from the fraction on, with the values and strings it has
\* computed at the top
estimate_from(value, complex_number_type, v, fraction, integer, fract_as_string, as_abs_string, sign) ==
    \* If it's an integer, there's nothing that would be done to it.
    IF is_zero(fraction) THEN None
    \* Eg. 0.5 to 1/2
    ELSE IF /\ starts_with(as_abs_string, <<"0", ".", "5">>)
            /\ \/ Len(as_abs_string) = 3
               \/ /\ Len(as_abs_string) > 6
                  /\ slice(as_abs_string, 3, 5) = <<"0", "0">>
    THEN Some(sign \o <<"1", "/", "2">>)
    \* Eg. 1.33333333 to 1 + 1/3
    ELSE IF /\ Len(fract_as_string) >= 7
            /\ slice(fract_as_string, 2, 7) \in {<<"3", "3", "3", "3", "3">>,
                                                 <<"6", "6", "6", "6", "6">>}
    THEN Some(repeating_third(sign, integer,
                 IF fract_as_string[3] = "3" THEN <<"1", "/", "3">>
                 ELSE <<"2", "/", "3">>))
    \* Match with common numbers, eg. pi, sqrt 2
    ELSE IF /\ Len(as_abs_string) >= 8
            /\ slice(as_abs_string, 0, 8) \in DOMAIN KnownConstants
    THEN Some(sign \o KnownConstants[slice(as_abs_string, 0, 8)])
    ELSE root_or_rounded(
             round_if_needed(Number(square(v), Mag(FALSE, 0, <<>>), "")).real,
             round(value, complex_number_type), complex_number_type)

\* estimate for the selected component v and its string
estimate_component(value, complex_number_type, v, value_string) ==
    estimate_from(value, complex_number_type, v, abs(fract(v)), trunc(v),
                  to_string(abs(fract(v))), trim_start(value_string, "-"),
                  IF is_negative(v) THEN <<"-">> ELSE <<>>)

estimate(value, complex_number_type) ==
    IF value.kind # "Number" THEN None
    ELSE IF complex_number_type = "Real"
    THEN estimate_component(value, complex_number_type, value.real,
                            to_string_real(value))
    ELSE estimate_component(value, complex_number_type, value.imaginary,
                            to_string_imaginary(value))

(***************************************************************************)
(* Inputs                                                                  *)
(***************************************************************************)
Alphabet == {Lit("4"), Id("f"), Id("x"), Plus, Minus, Star, Slash, Power,
             OpenParenthesis, ClosedParenthesis, Pipe, Comma, Equals, Deg, Rad}

RECURSIVE Streams(_)
Streams(n) ==
    IF n = 0 THEN {<<>>}
    ELSE LET shorter == Streams(n - 1)
         IN  shorter \cup {Append(s, t) : s \in {u \in shorter : Len(u) = n - 1},
                                          t \in Alphabet}

Examples ==
    { <<Id("f"), OpenParenthesis, Id("x"), ClosedParenthesis, Equals,
        Id("x"), Power, Lit("2")>>,                                   \* f(x)=x^2
      <<Id("f"), OpenParenthesis, Lit("4"), ClosedParenthesis>>,      \* f(4)
      <<Id("f"), OpenParenthesis, Lit("1"), ClosedParenthesis, Equals,
        Lit("2")>>,                                                   \* f(1)=2
      <<Id("f"), OpenParenthesis, Id("x"), Plus, Lit("1"), ClosedParenthesis,
        Equals, Id("x")>>,                                            \* f(x+1)=x
      <<Id("f"), OpenParenthesis, Id("x"), Comma, Id("y"), ClosedParenthesis,
        Equals, Id("x"), Star, Id("y")>>,                             \* f(x,y)=x*y
      <<Id("f"), OpenParenthesis, Lit("2"), Comma, Lit("4"),
        ClosedParenthesis>>,                                          \* f(2,4)
      <<Id("f"), OpenParenthesis, Id("x"), ClosedParenthesis, Deg, Equals,
        Lit("2")>>,                                                   \* f(x)deg=2
      <<Id("f"), OpenParenthesis, Id("x"), ClosedParenthesis, Equals,
        Id("f"), OpenParenthesis, Id("x"), ClosedParenthesis>>,       \* f(x)=f(x)
      <<Id("f"), OpenParenthesis, Lit("4"), ClosedParenthesis, Id("x"),
        Plus, Lit("1")>>,                                             \* f(4)x+1
      <<Id("x"), Equals, Lit("4"), Plus, Lit("2")>>,                  \* x=4+2
      <<Pipe, Minus, Lit("4"), Pipe, Star, Lit("2")>>,                \* |-4|*2
      <<Lit("2"), Power, Lit("2"), Power, Lit("2"), Id("x")>>,        \* 2^2^2x
      <<OpenParenthesis, Lit("4"), Plus, Lit("2"), ClosedParenthesis,
        Slash, Lit("2")>>,                                            \* (4+2)/2
      <<Lit("4"), Id("f"), Lit("2"), Id("x")>>,                       \* 4f2x
      <<Lit("4"), Plus, Minus>> }                                     \* 4+-

\* the first call of a session takes any stream up to MaxLen tokens; later
\* calls take the examples and the streams of at most one token
FirstInputs == Streams(MaxLen) \cup Examples

LaterInputs == Examples \cup {<<>>} \cup {<<t>> : t \in Alphabet}

Call == \E text \in (IF calls = 0 THEN FirstInputs ELSE LaterInputs) : ParseCall(text)

InitRoundingIdle ==
    /\ input = Boolean
    /\ component = "Real"
    /\ estimated = None
    /\ rounded = None
    /\ rpc = "off"

Init == InitParser /\ InitRoundingIdle

Next ==
    \/ Call /\ UNCHANGED rounding_vars
    \/ ParseStmt /\ UNCHANGED rounding_vars
    \/ Interpret /\ UNCHANGED rounding_vars

Spec == Init /\ [][Next]_vars

(***************************************************************************)
(* round and estimate applied to a value                                   *)
(***************************************************************************)
\* the fractions of the decimal literals the values are read from: on both
\* sides of each threshold of round, at the thresholds, and with the digits
\* estimate looks for
Fractions ==
    { <<>>,
      <<0, 0, 0, 0, 0, 0, 0, 0, 1>>, <<0, 0, 0, 0, 0, 0, 0, 1>>,
      <<0, 0, 0, 0, 0, 0, 0, 5>>,
      <<0, 0, 0, 0, 1>>, <<0, 0, 0, 0, 5>>, <<0, 0, 0, 1>>, <<0, 0, 0, 2>>,
      <<3>>, <<5>>, <<2, 5>>, <<5, 0, 0, 1>>, <<5, 0, 0, 0, 0, 0, 3>>,
      <<3, 3, 3, 3, 3>>, <<3, 3, 3, 3, 4>>, <<6, 6, 6, 6, 6>>,
      <<3, 3, 3, 3, 3, 3, 3>>, <<6, 6, 6, 6, 6, 6, 6>>,
      <<3, 3, 3, 3, 3, 3, 3, 3, 3>>, <<6, 6, 6, 6, 6, 6, 6, 6, 7>>,
      <<1, 4, 1, 5, 9, 2, 6, 5, 4>>, <<4, 1, 4, 2, 1, 3, 5, 6, 2>>,
      <<7, 3, 2, 0, 5, 0, 8, 0, 8>>,
      <<9, 9, 9>>, <<9, 9, 9, 9, 9>>, <<9, 9, 9, 9, 9, 5>>, <<9, 9, 9, 9, 9, 9>>,
      <<9, 9, 9, 9, 9, 9, 5>>, <<9, 9, 9, 9, 9, 9, 9, 9, 9>> }

Magnitudes == {f64(neg, int, ds) : neg \in BOOLEAN, int \in 0..MaxInt, ds \in Fractions}

OtherComponents == {f64(FALSE, 0, <<>>), f64(TRUE, 1, <<3, 3, 3, 3, 3, 3, 3>>)}

Values ==
    {Boolean}
    \cup {Number(re, im, unit) : re \in Magnitudes, im \in OtherComponents,
                                 unit \in {"", "deg"}}
    \cup {Number(re, im, unit) : re \in OtherComponents, im \in Magnitudes,
                                 unit \in {"", "deg"}}

InitRounding ==
    /\ input \in Values
    /\ component \in {"Real", "Imaginary"}
    /\ estimated = None
    /\ rounded = None
    /\ rpc = "ready"

Round ==
    /\ rpc = "ready"
    /\ rounded' = round(input, component)
    /\ rpc' = "rounded"
    /\ UNCHANGED <<input, component, estimated>>

Estimate ==
    /\ rpc = "ready"
    /\ estimated' = estimate(input, component)
    /\ rpc' = "estimated"
    /\ UNCHANGED <<input, component, rounded>>

NextRounding ==
    \/ Round /\ UNCHANGED parser_vars
    \/ Estimate /\ UNCHANGED parser_vars

InitValue == InitParser /\ InitRounding

SpecRounding == InitValue /\ [][NextRounding]_vars

(***************************************************************************)
(* Properties of the parser                                                *)
(***************************************************************************)
\* a call of parse has returned or aborted
Finished == pc # "loop" /\ outcome.kind # "None"

\* the step about to be taken is an iteration of the statement loop
StmtStep == pc = "loop" /\ ~is_at_end(Context(tokens, pos, symbol_table))

DeclInput == <<Id("f"), OpenParenthesis, Id("x"), ClosedParenthesis, Equals,
               Id("x"), Power, Lit("2")>>

CallInput == <<Id("f"), OpenParenthesis, Lit("4"), ClosedParenthesis>>

SquareDecl == FnDecl("f", <<"x">>, Binary(Var("x"), "Power", Literal("2")))

Declared(table) == "f()" \in DOMAIN table /\ table["f()"] = SquareDecl

\* C1: a call of parse on f(4), in a context where an earlier call declared
\* f(x)=x^2, starts at the first token of f(4), hands the interpreter the
\* statement f(4) with f() still in the symbol table, and returns 16.
C1_DeclaredFunctionCall ==
    (Finished /\ tokens = lex(CallInput) /\ Declared(start_table))
    => /\ start_pos = 0
       /\ statements = <<ExprStmt(FnCall("f", <<Literal("4")>>))>>
       /\ Declared(symbol_table)
       /\ outcome = Returned(Value(16))

\* C2: a function declaration whose parameter list holds something other
\* than a variable is refused with an error: no declaration statement is
\* produced and nothing is inserted into the symbol table.
C2_InvalidParameterList ==
    (log.reinterpreted /\ log.nonvar > 0)
    => /\ outcome.kind = "Err"
       /\ ~log.inserted

\* C3: when the interpreter has run on the parsed statements, its value is returned unchanged and
\* its failure is returned as an error result, not as a panic.
C3_EvaluationFailureReturned ==
    (Finished /\ outcome.by = "interpreter" /\ statements # <<>>)
    => IF interpret(statements, symbol_table).ok
       THEN outcome = Returned(interpret(statements, symbol_table))
       ELSE outcome.kind = "Err"

\* the stream with an explicit '*' inserted before the token at cursor i
InsertStar(s, i) == SubSeq(s, 1, i) \o <<Star>> \o SubSeq(s, i + 1, Len(s))

\* how the statement loop ended, as the kind of parse's outcome
RunKind(run) == CASE run.r = "ok" -> "interpreter"
                  [] OTHER -> "parse_stmt"

\* C5: for every cursor at which parse_factor multiplied implicitly, the
\* stream with an explicit '*' inserted there parses to the same statements,
\* ends one token further, and leaves the same symbol table.
C5_ImplicitMultiplication ==
    Finished =>
      \A i \in implicit_at :
        LET run == parse_run(Context(InsertStar(tokens, i), start_pos, start_table), <<>>)
        IN  /\ run.v = statements
            /\ run.c.pos = pos + 1
            /\ run.c.symbol_table = symbol_table
            /\ RunKind(run) = outcome.by

C5_Witness ==
    /\ Finished
    /\ implicit_at # {}
    /\ outcome.by = "interpreter"
    /\ statements # <<>>

\* C7: every token that parse_primary's fallback turned into a literal
\* operand is a Literal token.
C7_OperandsAreLiterals == log.operands \subseteq {"Literal"}

\* the number of places where the cursor went backwards
Decreases(tr) == Cardinality({j \in 1..(Len(tr) - 1) : tr[j + 1] < tr[j]})

BeginsIdentifierParen ==
    /\ tokens[pos + 1].kind = "Identifier"
    /\ pos + 2 <= Len(tokens)
    /\ tokens[pos + 2].kind = "OpenParenthesis"

\* the speculative call parses and something other than '=' follows it
NotFollowedByEquals ==
    LET call == parse_primary(Context(tokens, pos, symbol_table))
    IN  /\ call.r = "ok"
        /\ call.c.pos < Len(tokens)
        /\ tokens[call.c.pos + 1].kind # "Equals"

\* C8: while one statement is parsed the cursor only steps forward by one,
\* except for one rewind, which happens exactly when the statement begins
\* identifier-then-parenthesis and the call is not followed by '=': it goes
\* back to where the statement began, the statement comes out as an
\* expression statement and the symbol table is unchanged.
C8_SingleRewind ==
    [][StmtStep =>
         LET tr == log'.trace
         IN  /\ tr[1] = pos
             /\ Decreases(tr) = log'.rewinds
             /\ log'.rewinds = IF BeginsIdentifierParen /\ NotFollowedByEquals
                               THEN 1 ELSE 0
             /\ \A j \in 1..(Len(tr) - 1) :
                   IF tr[j + 1] < tr[j] THEN tr[j + 1] = pos
                   ELSE tr[j + 1] = tr[j] + 1
             /\ log'.rewinds = 1 =>
                   /\ symbol_table' = symbol_table
                   /\ pc' = "loop" => statements'[Len(statements')].s = "Expr"
      ]_vars

C8_Witness ==
    /\ log.rewinds = 1
    /\ pc = "loop"
    /\ Len(log.trace) > 4
    /\ statements # <<>>

\* C9: no token access is out of bounds, in any call of a session.
C9_TokenAccessInBounds ==
    /\ outcome.msg # "index out of bounds"
    /\ \A i \in log.reads : i >= 0 /\ i < Len(tokens)

C9_Witness ==
    /\ calls = 2
    /\ start_pos > 0
    /\ pos = Len(tokens)
    /\ (Len(tokens) - 1) \in log.reads
    /\ log.trace[1] = start_pos

\* C10: an iteration of the statement loop that returns a statement leaves
\* the cursor further on than it found it, and never beyond the stream.
C10_StatementProgress ==
    [][StmtStep => /\ pc' = "loop" => pos' > pos
                   /\ pos' <= Len(tokens)]_vars

C10_Witness ==
    /\ pc = "loop"
    /\ log.rewinds = 1
    /\ log.implicit # {}
    /\ Len(statements) = 1
    /\ pos > start_pos

(***************************************************************************)
(* Properties of round and estimate                                        *)
(***************************************************************************)
\* the component round or estimate was applied to
Selected == component_of(input, component)

\* the component left alone
Other(value) == IF component = "Real" THEN value.imaginary ELSE value.real

OneAndAThird == f64(FALSE, 1, <<3, 3, 3, 3, 3, 3, 3>>)

TwoAndTwoThirds == f64(FALSE, 2, <<6, 6, 6, 6, 6, 6, 6>>)

MinusOneAndAThird == f64(TRUE, 1, <<3, 3, 3, 3, 3, 3, 3>>)

\* C4 as stated: estimate gives "1/3" for 1.3333333, "2 + 2/3" for
\* 2.6666666 and "-1 - 1/3" for -1.3333333.
C4_ThirdsAsStated ==
    (rpc = "estimated" /\ input.kind = "Number")
    => /\ Selected = OneAndAThird => estimated = Some(<<"1", "/", "3">>)
       /\ Selected = TwoAndTwoThirds
            => estimated = Some(<<"2", " ", "+", " ", "2", "/", "3">>)
       /\ Selected = MinusOneAndAThird
            => estimated = Some(<<"-", "1", " ", "-", " ", "1", "/", "3">>)

\* the fraction of v taken alone, as estimate prints it
FractionText(v) == to_string(abs(fract(v)))

\* the text the repeating-third branch is to give for the magnitude v
ThirdsText(v) ==
    LET third == IF FractionText(v)[3] = "3" THEN <<"1", "/", "3">>
                 ELSE <<"2", "/", "3">>
        minus == IF v.neg THEN <<"-">> ELSE <<>>
    IN  IF v.int = 0 THEN minus \o third
        ELSE minus \o DigitChars(NatDigits(v.int))
             \o <<" ", IF v.neg THEN "-" ELSE "+", " ">> \o third

\* C4, amended: estimate gives "1 + 1/3" for 1.3333333, "2 + 2/3" for
\* 2.6666666 and "-1 - 1/3" for -1.3333333; whenever the printed fraction
\* begins 33333 or 66666 after the point the result is the signed fraction
\* alone if the integer part is zero and "<integer> <+ or -> <fraction>"
\* otherwise.
C4_RepeatingThird ==
    (rpc = "estimated" /\ input.kind = "Number")
    => /\ Selected = OneAndAThird
            => estimated = Some(<<"1", " ", "+", " ", "1", "/", "3">>)
       /\ Selected = TwoAndTwoThirds
            => estimated = Some(<<"2", " ", "+", " ", "2", "/", "3">>)
       /\ Selected = MinusOneAndAThird
            => estimated = Some(<<"-", "1", " ", "-", " ", "1", "/", "3">>)
       /\ (/\ Len(FractionText(Selected)) >= 7
           /\ SubSeq(FractionText(Selected), 3, 7)
                \in {<<"3", "3", "3", "3", "3">>, <<"6", "6", "6", "6", "6">>})
            => estimated = Some(ThirdsText(Selected))

C4_Witness ==
    /\ rpc = "estimated"
    /\ Selected = OneAndAThird
    /\ estimated = Some(<<"1", " ", "+", " ", "1", "/", "3">>)

\* the fraction of |v| lies below the threshold: its logarithm is less than
\* -8 (integer part zero) or -4
FractionNegligible(v) ==
    log10_less(fract(abs(v)), IF v.int = 0 THEN -8 ELSE -4)

\* what the fraction of |v| is short of one lies below the threshold: its
\* logarithm is less than -5 (integer part zero) or -6
NearNextInteger(v) ==
    log10_less(one_minus(fract(abs(v))), IF v.int = 0 THEN -5 ELSE -6)

\* C6: when round gives a value, the selected component is the integer
\* sign*trunc(|v|) (fraction negligible) or sign*ceil(|v|) (next integer
\* near), the other component and the unit are the input's; when neither
\* threshold is met, and for a value that is no number, round gives nothing.
C6_RoundResult ==
    rpc = "rounded" =>
      IF input.kind = "Number"
         /\ (FractionNegligible(Selected) \/ NearNextInteger(Selected))
      THEN /\ rounded # None
           /\ rounded[1].kind = "Number"
           /\ component_of(rounded[1], component) =
                Mag(is_negative(Selected),
                    IF FractionNegligible(Selected) THEN Selected.int
                    ELSE Selected.int + 1,
                    <<>>)
           /\ Other(rounded[1]) = Other(input)
           /\ rounded[1].unit = input.unit
      ELSE rounded = None

\* round took -1.999999 to -2 (the literal is 10^-6 short of the integer
\* in decimal; the f64 is nearer)
C6_Witness ==
    /\ rpc = "rounded"
    /\ rounded # None
    /\ Selected = f64(TRUE, 1, <<9, 9, 9, 9, 9, 9>>)
    /\ component_of(rounded[1], component) = Mag(TRUE, 2, <<>>)
    /\ ~is_zero(Other(rounded[1]))
    /\ rounded[1].unit = "deg"

====
